---- MODULE Spec2Model ----
(***************************************************************************)
(* River-Health-Prediction: the synthetic data generator                   *)
(* (synthetic_data.py) and the Streamlit prediction form (app.py).         *)
(*                                                                         *)
(* Units.  Readings are fixed-point integers.  Inside create_record and    *)
(* calculate_wqi a reading is held in thousandths (pH 6.8 is 6800); the    *)
(* values a record stores, after round(x, 2), are hundredths (680).  A     *)
(* Timestamp is the number of hours since 2023-01-01 00:00:00.  The form's *)
(* probability is held in hundredths of a percent (20 % is 2000).          *)
(*                                                                         *)
(* Randomness.  Every call of np.random.normal, np.random.uniform and      *)
(* random.random is a nondeterministic choice: a normal draw is given by   *)
(* its z-score in thousandths of a standard deviation, a uniform draw by   *)
(* its position in the interval in thousandths, random.random() by its     *)
(* value in thousandths.                                                   *)
(***************************************************************************)
EXTENDS Integers, Sequences, FiniteSets, TLC

VARIABLES
    \* synthetic_data.py, the script and generate_dataset
    pc,            \* position of the script
    n,             \* generate_dataset's argument
    fake,          \* state of the Faker generator made at import
    factories,     \* the pool of factory ids
    i,             \* loop index
    season,        \* season of the current iteration
    data,          \* list of entries
    df,            \* the DataFrame returned
    csv,           \* synthetic_river_health_data.csv on disk
    \* one call of create_record
    call,          \* <<>> or <<its arguments and random draws>>
    entry,         \* <<>> or <<the record returned>>
    \* one call of calculate_wqi
    wqi_in,        \* <<>> or <<its arguments>>
    wqi_out,       \* <<>> or <<the value returned>>
    \* app.py, one run of the Streamlit script
    apc,           \* position of the script
    files,         \* what joblib.load finds for each artifact
    best_model,    \* which prediction methods the loaded model has
    model_loaded,
    click,         \* <<>> or <<what the collaborators did on this click>>
    input_data,    \* the columns of the feature row
    probability,
    category,
    rendered       \* the elements rendered on the page, in order

genVars == <<pc, n, fake, factories, i, season, data, df, csv>>
recVars == <<call, entry>>
wqiVars == <<wqi_in, wqi_out>>
appVars == <<apc, files, best_model, model_loaded, click, input_data,
             probability, category, rendered>>
vars == <<genVars, recVars, wqiVars, appVars>>

----------------------------------------------------------------------------
(* Bounds of the model *)

\* largest n given to generate_dataset
MaxN == 2
\* number of distinct initial states of the Faker generator
MaxFake == 2
\* largest hour offset whose season is computed on its own
MaxHour == 9000

----------------------------------------------------------------------------
(* synthetic_data.py: tables *)

\* np.nan, which no reading equals once clamped
NaN == -1

\* Python's None as the value of `probability`, which is otherwise >= 0
None == -1

Industries == <<"chemical", "textile", "food_processing">>

Fields == {"pH", "nitrate", "turbidity", "water_temp", "DO", "conductivity"}

base_values ==
    [chemical        |-> [pH |-> 5500, nitrate |-> 15000, temp |-> 22000,
                          turbidity |-> 10000, do |-> 7000, conductivity |-> 300000],
     textile         |-> [pH |-> 7500, nitrate |-> 10000, temp |-> 28000,
                          turbidity |-> 20000, do |-> 6500, conductivity |-> 500000],
     food_processing |-> [pH |-> 6800, nitrate |-> 5000, temp |-> 18000,
                          turbidity |-> 5000, do |-> 8000, conductivity |-> 150000]]

pollution_effect ==
    [chemical        |-> [pH |-> <<-2500, 2500>>, nitrate |-> <<3000, 7000>>,
                          turbidity |-> <<2000, 5000>>, do |-> <<-3000, -1000>>,
                          conductivity |-> <<1500, 3000>>],
     textile         |-> [pH |-> <<-1000, 1000>>, nitrate |-> <<2000, 5000>>,
                          turbidity |-> <<1500, 3000>>, do |-> <<-2000, -500>>,
                          conductivity |-> <<1200, 2500>>],
     food_processing |-> [pH |-> <<-500, 500>>, nitrate |-> <<1500, 3000>>,
                          turbidity |-> <<1200, 2000>>, do |-> <<-1000, 0>>,
                          conductivity |-> <<1100, 1800>>]]

season_temp_offset ==
    [winter |-> -5000, spring |-> 0, summer |-> 5000, autumn |-> 0]

----------------------------------------------------------------------------
(* numpy and Python arithmetic on fixed-point values *)

Abs(x) == IF x < 0 THEN -x ELSE x

Max(a, b) == IF a >= b THEN a ELSE b

\* np.clip(x, lo, hi)
Clip(x, lo, hi) == IF x < lo THEN lo ELSE IF x > hi THEN hi ELSE x

\* x * f for x and f in thousandths, the result in thousandths (floor); the
\* product is split so that no intermediate value leaves 32 bits
MulMilli(x, f) == (x \div 1000) * f + ((x % 1000) * f) \div 1000

\* round(x, 2) to hundredths, of a value x >= 0 that has `per` units in one
\* hundredth: round half to even
RoundHalfEven(x, per) ==
    LET q == x \div per
        r == x % per
    IN  IF 2 * r < per THEN q
        ELSE IF 2 * r > per THEN q + 1
        ELSE IF q % 2 = 0 THEN q ELSE q + 1

\* round(x, 2) of a reading in thousandths; round(nan, 2) is nan
Round2(x) == IF x = NaN THEN NaN ELSE RoundHalfEven(x, 10)

\* np.random.normal(0, sd), the draw's z-score being z
Normal(sd, z) == (sd * z) \div 1000

\* np.random.uniform(lo, hi), the draw lying u thousandths into [lo, hi)
Uniform(range, u) == range[1] + ((range[2] - range[1]) * u) \div 1000

----------------------------------------------------------------------------
(* synthetic_data.py: calculate_wqi *)

calculate_wqi_TempTerm(pH, DO, nitrate, turbidity, temp) ==
    LET pH_score        == Max(0, 100000 - Abs(pH - 7000) * 15)
        do_score        == Clip((DO - 4000) * 25, 0, 100000)
        nitrate_score   == Max(0, 100000 - nitrate * 5)
        turbidity_score == Max(0, 100000 - turbidity * 4)
        score == do_score * 40 + pH_score * 25 + nitrate_score * 20
                 + turbidity_score * 15 - Abs(temp - 20000) * 10
    IN  RoundHalfEven(Clip(score, 0, 10000000), 1000)

calculate_wqi_SwappedWeights(pH, DO, nitrate, turbidity, temp) ==
    LET pH_score        == Max(0, 100000 - Abs(pH - 7000) * 15)
        do_score        == Clip((DO - 4000) * 25, 0, 100000)
        nitrate_score   == Max(0, 100000 - nitrate * 5)
        turbidity_score == Max(0, 100000 - turbidity * 4)
        score == do_score * 40 + pH_score * 25 + nitrate_score * 15
                 + turbidity_score * 20
    IN  RoundHalfEven(Clip(score, 0, 10000000), 1000)

\* the sub-scores are in thousandths of a point, the weights in hundredths,
\* so `score` is in 1/100000 of a point; the result is in hundredths
calculate_wqi(pH, DO, nitrate, turbidity, temp) ==
    LET pH_score        == Max(0, 100000 - Abs(pH - 7000) * 15)
        do_score        == Clip((DO - 4000) * 25, 0, 100000)
        nitrate_score   == Max(0, 100000 - nitrate * 5)
        turbidity_score == Max(0, 100000 - turbidity * 4)
        score == do_score * 40 + pH_score * 25 + nitrate_score * 20
                 + turbidity_score * 15
    IN  RoundHalfEven(Clip(score, 0, 10000000), 1000)

----------------------------------------------------------------------------
(* synthetic_data.py: create_record *)

\* lines 37-44: baseline plus Gaussian noise, with the seasonal offsets
Noise(industry, s, z) ==
    LET vals == base_values[industry]
        temp_base == vals.temp + season_temp_offset[s]
        do_base == vals.do + (IF s \in {"winter", "spring"} THEN 500 ELSE -500)
    IN  [pH           |-> vals.pH + Normal(200, z.pH),
         nitrate      |-> vals.nitrate + Normal(1500, z.nitrate),
         turbidity    |-> vals.turbidity + Normal(3000, z.turbidity),
         water_temp   |-> temp_base + Normal(1000, z.water_temp),
         DO           |-> do_base + Normal(500, z.DO),
         conductivity |-> vals.conductivity + Normal(50000, z.conductivity)]

\* lines 46-58: the pollution effect, or the background drift
Effect(industry, is_polluted, r, u) ==
    IF is_polluted = 1
    THEN LET eff == pollution_effect[industry]
         IN  [pH           |-> r.pH + Uniform(eff.pH, u.pH),
              nitrate      |-> MulMilli(r.nitrate, Uniform(eff.nitrate, u.nitrate)),
              turbidity    |-> MulMilli(r.turbidity, Uniform(eff.turbidity, u.turbidity)),
              water_temp   |-> r.water_temp,
              DO           |-> r.DO + Uniform(eff.do, u.DO),
              conductivity |-> MulMilli(r.conductivity,
                                        Uniform(eff.conductivity, u.conductivity))]
    ELSE [pH           |-> r.pH + Uniform(<<-100, 100>>, u.pH),
          nitrate      |-> r.nitrate + Uniform(<<100, 1000>>, u.nitrate),
          turbidity    |-> r.turbidity + Uniform(<<100, 2000>>, u.turbidity),
          water_temp   |-> r.water_temp,
          DO           |-> r.DO + Uniform(<<-100, 100>>, u.DO),
          conductivity |-> r.conductivity + Uniform(<<1000, 5000>>, u.conductivity)]

Clamp_NoNitrateCeiling(r) ==
    [pH           |-> Clip(r.pH, 3000, 10000),
     nitrate      |-> Max(r.nitrate, 0),
     turbidity    |-> Clip(r.turbidity, 0, 150000),
     water_temp   |-> Clip(r.water_temp, 5000, 40000),
     DO           |-> Clip(r.DO, 0, 14000),
     conductivity |-> Clip(r.conductivity, 50000, 2000000)]

\* lines 60-65
Clamp(r) ==
    [pH           |-> Clip(r.pH, 3000, 10000),
     nitrate      |-> Clip(r.nitrate, 0, 100000),
     turbidity    |-> Clip(r.turbidity, 0, 150000),
     water_temp   |-> Clip(r.water_temp, 5000, 40000),
     DO           |-> Clip(r.DO, 0, 14000),
     conductivity |-> Clip(r.conductivity, 50000, 2000000)]

\* lines 67-72: m[f] is the value of the random.random() drawn for field f
InjectMissing(r, m) ==
    [f \in Fields |-> IF m[f] < 70 THEN NaN ELSE r[f]]

WqiOf_TempUnchecked(r) ==
    IF \E f \in {"pH", "DO", "nitrate", "turbidity"} : r[f] = NaN
    THEN NaN
    ELSE calculate_wqi(r.pH, r.DO, r.nitrate, r.turbidity, r.water_temp)

\* lines 74-77
WqiOf(r) ==
    IF \E f \in {"pH", "DO", "nitrate", "turbidity", "water_temp"} : r[f] = NaN
    THEN NaN
    ELSE calculate_wqi(r.pH, r.DO, r.nitrate, r.turbidity, r.water_temp)

\* the six readings at line 73, before they are rounded
Readings(industry, is_polluted, s, rnd) ==
    InjectMissing(Clamp(Effect(industry, is_polluted, Noise(industry, s, rnd.z), rnd.u)),
                  rnd.m)

create_record(time, factory, industry, is_polluted, s, rnd) ==
    LET r == Readings(industry, is_polluted, s, rnd)
    IN  [Timestamp           |-> time,
         Factory_ID          |-> factory,
         Industry_Type       |-> industry,
         pH                  |-> Round2(r.pH),
         Turbidity           |-> Round2(r.turbidity),
         Dissolved_Oxygen    |-> Round2(r.DO),
         Water_Temperature   |-> Round2(r.water_temp),
         Conductivity        |-> Round2(r.conductivity),
         Nitrate             |-> Round2(r.nitrate),
         Water_Quality_Index |-> WqiOf(r),
         Pollution_Flag      |-> is_polluted]

\* the keys of the dict create_record returns, in order
RecordColumns ==
    <<"Timestamp", "Factory_ID", "Industry_Type", "pH", "Turbidity",
      "Dissolved_Oxygen", "Water_Temperature", "Conductivity", "Nitrate",
      "Water_Quality_Index", "Pollution_Flag">>

----------------------------------------------------------------------------
(* synthetic_data.py: generate_dataset and the script *)

\* the k-th fake.uuid4() of a Faker generator whose initial state is f
Uuid4(f, k) == <<f, k>>

\* pd.to_datetime("2023-01-01 00:00:00"), in hours
start == 0

IsLeap(y) == (y % 4 = 0 /\ y % 100 # 0) \/ y % 400 = 0

DaysInMonth(y, m) ==
    IF m = 2 THEN (IF IsLeap(y) THEN 29 ELSE 28)
    ELSE IF m \in {4, 6, 9, 11} THEN 30 ELSE 31

RECURSIVE MonthFrom(_, _, _)
MonthFrom(y, m, d) ==
    IF d < DaysInMonth(y, m) THEN m
    ELSE MonthFrom(IF m = 12 THEN y + 1 ELSE y, IF m = 12 THEN 1 ELSE m + 1,
                   d - DaysInMonth(y, m))

\* time.month of a Timestamp: the calendar month, hours after 2023-01-01 00:00
Month(time) == MonthFrom(2023, 1, time \div 24)

SeasonOfMonth_AutumnFromAugust(month) ==
    IF 3 <= month /\ month <= 5 THEN "spring"
    ELSE IF 6 <= month /\ month < 8 THEN "summer"
    ELSE IF 8 <= month /\ month <= 11 THEN "autumn"
    ELSE "winter"

\* lines 103-111
SeasonOfMonth(month) ==
    IF 3 <= month /\ month <= 5 THEN "spring"
    ELSE IF 6 <= month /\ month <= 8 THEN "summer"
    ELSE IF 9 <= month /\ month <= 11 THEN "autumn"
    ELSE "winter"

\* DataFrame.sort_index on the Timestamp index: a stable insertion sort
RECURSIVE InsertByTimestamp(_, _)
InsertByTimestamp(row, rows) ==
    IF rows = <<>> THEN <<row>>
    ELSE IF Head(rows).Timestamp <= row.Timestamp
         THEN <<Head(rows)>> \o InsertByTimestamp(row, Tail(rows))
         ELSE <<row>> \o rows

RECURSIVE SortIndex(_)
SortIndex(rows) ==
    IF rows = <<>> THEN <<>>
    ELSE InsertByTimestamp(rows[Len(rows)], SortIndex(SubSeq(rows, 1, Len(rows) - 1)))

NoFrame == [status |-> "unset", rows |-> <<>>]

NoFile == [exists |-> FALSE, rows |-> <<>>]

----------------------------------------------------------------------------
(* The random draws explored *)

Seasons == {"winter", "spring", "summer", "autumn"}

UniformFields == Fields \ {"water_temp"}

\* z-scores of the normal draws: far tails (every clamp bound is crossed),
\* one standard deviation, the mean, and just off the mean
ZLevels == {-12000, -1000, 0, 1000, 12000}

ZLevelsPH == ZLevels \cup {20}

\* positions of the uniform draws in their interval
ULevels == {0, 999}

\* values of random.random() on either side of the 0.07 threshold
MissingDraws == {69, 70}

\* all draws of one create_record call
Samples ==
    { [z |-> [f \in Fields |-> IF f = "pH" THEN zp ELSE zo],
       u |-> [f \in UniformFields |-> uu],
       m |-> mm] :
         zp \in ZLevelsPH, zo \in ZLevels, uu \in ULevels,
         mm \in [Fields -> MissingDraws] }

\* the draws a row of a whole dataset is built from
RunSamples ==
    { [z |-> [f \in Fields |-> 0], u |-> [f \in UniformFields |-> 0],
       m |-> [f \in Fields |-> 70]],
      [z |-> [f \in Fields |-> 12000], u |-> [f \in UniformFields |-> 999],
       m |-> [f \in Fields |-> IF f = "pH" THEN 69 ELSE 70]] }

\* values of the random.random() compared with the pollution probability
PollutedDraws == {149, 150, 199, 200}

----------------------------------------------------------------------------
(* app.py is idle while the generator runs, and conversely *)

AppIdle ==
    /\ apc = "idle"
    /\ files = <<>>
    /\ best_model = "none"
    /\ model_loaded = FALSE
    /\ click = <<>>
    /\ input_data = <<>>
    /\ probability = None
    /\ category = "none"
    /\ rendered = <<>>

GenIdle ==
    /\ pc = "idle"
    /\ n = 0
    /\ fake = 0
    /\ factories = <<>>
    /\ i = 0
    /\ season = "none"
    /\ data = <<>>
    /\ df = NoFrame
    /\ csv = NoFile

RecIdle == call = <<>> /\ entry = <<>>

WqiIdle == wqi_in = <<>> /\ wqi_out = <<>>

----------------------------------------------------------------------------
(* The script synthetic_data.py *)

Init ==
    /\ pc = "call"
    /\ n \in 0..MaxN
    /\ fake \in 1..MaxFake
    /\ factories = <<>>
    /\ i = 0
    /\ season = "none"
    /\ data = <<>>
    /\ df = NoFrame
    /\ csv = NoFile
    /\ RecIdle /\ WqiIdle /\ AppIdle

\* lines 94-98
Setup ==
    /\ pc = "call"
    /\ pc' = "loop"
    /\ data' = <<>>
    /\ factories' = [k \in 1..5 |-> Uuid4(fake, k)]
    /\ i' = 0
    /\ UNCHANGED <<n, fake, season, df, csv, recVars, wqiVars, appVars>>

\* lines 100-120: one iteration of the loop
LoopIter ==
    /\ pc = "loop"
    /\ i < n
    /\ \E k \in 1..5, j \in 1..Len(Industries), r \in PollutedDraws, rnd \in RunSamples :
          LET time     == start + i
              s        == SeasonOfMonth(Month(time))
              factory  == factories[k]
              industry == Industries[j]
              prob     == IF industry = "chemical" THEN 200 ELSE 150
              polluted == IF r < prob THEN 1 ELSE 0
              rec      == create_record(time, factory, industry, polluted, s, rnd)
          IN  /\ season' = s
              /\ call' = <<[time |-> time, factory |-> factory, industry |-> industry,
                            is_polluted |-> polluted, season |-> s, rnd |-> rnd]>>
              /\ entry' = <<rec>>
              /\ data' = Append(data, rec)
    /\ i' = i + 1
    /\ UNCHANGED <<pc, n, fake, factories, df, csv, wqiVars, appVars>>

\* lines 122-124: pd.DataFrame(data).set_index("Timestamp").sort_index().
\* pd.DataFrame([]) has no columns, so set_index raises KeyError
BuildFrame ==
    /\ pc = "loop"
    /\ i >= n
    /\ IF data = <<>>
       THEN /\ df' = [status |-> "KeyError", rows |-> <<>>]
            /\ pc' = "raised"
       ELSE /\ df' = [status |-> "ok", rows |-> SortIndex(data)]
            /\ pc' = "returned"
    /\ UNCHANGED <<n, fake, factories, i, season, data, csv, recVars, wqiVars, appVars>>

\* lines 126-127: df.to_csv
Export ==
    /\ pc = "returned"
    /\ csv' = [exists |-> TRUE, rows |-> df.rows]
    /\ pc' = "saved"
    /\ UNCHANGED <<n, fake, factories, i, season, data, df, recVars, wqiVars, appVars>>

Next == Setup \/ LoopIter \/ BuildFrame \/ Export

Spec == Init /\ [][Next]_vars

----------------------------------------------------------------------------
(* The script run again: a new process, whose generators are seeded anew   *)
(* (the script never calls random.seed, np.random.seed or Faker.seed); the *)
(* file of the earlier run stays on disk until to_csv overwrites it        *)

InitRerun == Init /\ n <= 1

Rerun ==
    /\ pc \in {"saved", "raised"}
    /\ pc' = "call"
    /\ fake' \in 1..MaxFake
    /\ factories' = <<>>
    /\ i' = 0
    /\ season' = "none"
    /\ data' = <<>>
    /\ df' = NoFrame
    /\ call' = <<>>
    /\ entry' = <<>>
    /\ UNCHANGED <<n, csv, wqiVars, appVars>>

NextRerun == Setup \/ LoopIter \/ BuildFrame \/ Export \/ Rerun

SpecRerun == InitRerun /\ [][NextRerun]_vars

----------------------------------------------------------------------------
(* create_record on its own: any industry, season, flag and draws *)

InitRecord == GenIdle /\ RecIdle /\ WqiIdle /\ AppIdle

CallCreateRecord ==
    /\ call = <<>>
    /\ \E j \in 1..Len(Industries), is_polluted \in {0, 1}, s \in Seasons,
          rnd \in Samples :
          /\ call' = <<[time |-> start, factory |-> Uuid4(1, 1),
                        industry |-> Industries[j], is_polluted |-> is_polluted,
                        season |-> s, rnd |-> rnd]>>
          /\ entry' = <<create_record(start, Uuid4(1, 1), Industries[j],
                                      is_polluted, s, rnd)>>
    /\ UNCHANGED <<genVars, wqiVars, appVars>>

NextRecord == CallCreateRecord

SpecRecord == InitRecord /\ [][NextRecord]_vars

----------------------------------------------------------------------------
(* calculate_wqi on its own: inputs inside the clamp ranges *)

WqiPH == {3000, 5500, 6804, 7000, 7330, 10000}
WqiDO == {0, 3990, 4000, 6010, 8000, 14000}
WqiNitrate == {0, 5000, 12345, 20000, 100000}
WqiTurbidity == {0, 10000, 24999, 25000, 150000}
WqiTemp == {5000, 20000, 40000}

InitWqi == GenIdle /\ RecIdle /\ WqiIdle /\ AppIdle

CallCalculateWqi ==
    /\ wqi_in = <<>>
    /\ \E pH \in WqiPH, DO \in WqiDO, nitrate \in WqiNitrate,
          turbidity \in WqiTurbidity, temp \in WqiTemp :
          /\ wqi_in' = <<[pH |-> pH, DO |-> DO, nitrate |-> nitrate,
                          turbidity |-> turbidity, temp |-> temp]>>
          /\ wqi_out' = <<calculate_wqi(pH, DO, nitrate, turbidity, temp)>>
    /\ UNCHANGED <<genVars, recVars, appVars>>

NextWqi == CallCalculateWqi

SpecWqi == InitWqi /\ [][NextWqi]_vars

----------------------------------------------------------------------------
(* Lines 101-111 on their own: the season of the i-th hour *)

InitSeason ==
    /\ pc = "time"
    /\ n = 0
    /\ fake = 0
    /\ factories = <<>>
    /\ i \in 0..MaxHour
    /\ season = "none"
    /\ data = <<>>
    /\ df = NoFrame
    /\ csv = NoFile
    /\ RecIdle /\ WqiIdle /\ AppIdle

DeriveSeason ==
    /\ pc = "time"
    /\ season' = SeasonOfMonth(Month(start + i))
    /\ pc' = "season"
    /\ UNCHANGED <<n, fake, factories, i, data, df, csv, recVars, wqiVars, appVars>>

NextSeason == DeriveSeason

SpecSeason == InitSeason /\ [][NextSeason]_vars

----------------------------------------------------------------------------
(* Claims about the generator *)

InRangeOrMissing(v, lo, hi) == v = NaN \/ (lo <= v /\ v <= hi)

\* C1: every reading of a record create_record returns is missing or lies in
\* its clamp range after rounding: pH in [3,10], Nitrate in [0,100],
\* Turbidity in [0,150], Dissolved_Oxygen in [0,14], Conductivity in
\* [50,2000], Water_Temperature in [5,40] (values in hundredths).
C1_ReadingsInClampRange ==
    entry # <<>> =>
        LET e == entry[1]
        IN  /\ InRangeOrMissing(e.pH, 300, 1000)
            /\ InRangeOrMissing(e.Nitrate, 0, 10000)
            /\ InRangeOrMissing(e.Turbidity, 0, 15000)
            /\ InRangeOrMissing(e.Dissolved_Oxygen, 0, 1400)
            /\ InRangeOrMissing(e.Conductivity, 5000, 200000)
            /\ InRangeOrMissing(e.Water_Temperature, 500, 4000)

\* the readings of a call before they are clamped
Unclamped(c) == Effect(c.industry, c.is_polluted,
                       Noise(c.industry, c.season, c.rnd.z), c.rnd.u)

\* C1's case: a polluted record whose nitrate and pH both left their range
\* above, and are stored at the bound
C1_Witness ==
    /\ entry # <<>>
    /\ call[1].is_polluted = 1
    /\ Unclamped(call[1]).nitrate > 100000
    /\ Unclamped(call[1]).pH > 10000
    /\ entry[1].Nitrate = 10000
    /\ entry[1].pH = 1000

\* C2: Water_Quality_Index is present exactly when pH, Dissolved_Oxygen,
\* Nitrate, Turbidity and Water_Temperature are all present; Conductivity
\* has no part in it.
C2_WqiPresentIffInputsPresent ==
    entry # <<>> =>
        LET e == entry[1]
        IN  (e.Water_Quality_Index # NaN)
            <=> (/\ e.pH # NaN
                 /\ e.Dissolved_Oxygen # NaN
                 /\ e.Nitrate # NaN
                 /\ e.Turbidity # NaN
                 /\ e.Water_Temperature # NaN)

\* C2's case: Conductivity alone is missing and the index is present
C2_Witness ==
    /\ entry # <<>>
    /\ entry[1].Conductivity = NaN
    /\ entry[1].Water_Quality_Index # NaN

\* C3: generate_dataset(n) returns n rows, the k-th at start + (k-1) hours,
\* in the order they were generated, for every n >= 0.
C3_DatasetRowsHourly ==
    pc \in {"returned", "saved", "raised"} =>
        /\ df.status = "ok"
        /\ Len(df.rows) = n
        /\ \A k \in 1..Len(df.rows) : df.rows[k].Timestamp = start + (k - 1)
        /\ df.rows = data

\* the composite of C4's statement, in 1/100000 of a point
ClaimedScore(a) ==
    LET pH_score        == Max(0, 100000 - Abs(a.pH - 7000) * 15)
        DO_score        == Clip((a.DO - 4000) * 25, 0, 100000)
        nitrate_score   == Max(0, 100000 - a.nitrate * 5)
        turbidity_score == Max(0, 100000 - a.turbidity * 4)
    IN  40 * DO_score + 25 * pH_score + 20 * nitrate_score + 15 * turbidity_score

WqiExample == [pH |-> 7000, DO |-> 8000, nitrate |-> 5000, turbidity |-> 10000]

\* C4: calculate_wqi returns 0.40*DO_score + 0.25*pH_score + 0.20*nitrate_score
\* + 0.15*turbidity_score clamped to [0,100] and rounded to 2 decimals (the
\* result is within half a hundredth of the clamped composite); it lies in
\* [0,100]; and pH=7.0, DO=8.0, nitrate=5.0, turbidity=10.0 give 89.00.
C4_WqiFormula ==
    wqi_out # <<>> =>
        LET a == wqi_in[1]
            v == wqi_out[1]
        IN  /\ 0 <= v /\ v <= 10000
            /\ Abs(1000 * v - Clip(ClaimedScore(a), 0, 10000000)) <= 500
            /\ (\A f \in DOMAIN WqiExample : a[f] = WqiExample[f]) => v = 8900

\* C4's case: the literal example was computed
C4_Witness ==
    /\ wqi_out = <<8900>>
    /\ \A f \in DOMAIN WqiExample : wqi_in[1][f] = WqiExample[f]

ExpectedSeason ==
    [m \in 1..12 |->
        CASE m \in {3, 4, 5}   -> "spring"
          [] m \in {6, 7, 8}   -> "summer"
          [] m \in {9, 10, 11} -> "autumn"
          [] m \in {12, 1, 2}  -> "winter"]

\* C5: the season is the function of the timestamp's calendar month that
\* sends 3,4,5 to spring, 6,7,8 to summer, 9,10,11 to autumn and 12,1,2 to
\* winter, and it is a key of create_record's temperature-offset table.
C5_SeasonOfMonth ==
    pc = "season" =>
        /\ season = ExpectedSeason[Month(start + i)]
        /\ season \in DOMAIN season_temp_offset

\* C5's case: an hour of August, the last month of summer
C5_Witness == pc = "season" /\ Month(start + i) = 8 /\ season = "summer"

OtherCalls ==
    { [time |-> start, factory |-> Uuid4(1, 1), industry |-> Industries[j],
       is_polluted |-> p, season |-> s, rnd |-> rnd] :
         j \in 1..Len(Industries), p \in {0, 1}, s \in Seasons,
         rnd \in {x \in Samples : \A f \in Fields : x.m[f] = 70} }

RecordOf(c) ==
    create_record(c.time, c.factory, c.industry, c.is_polluted, c.season, c.rnd)

ReadingsOf(c) == Readings(c.industry, c.is_polluted, c.season, c.rnd)

\* what those calls compute: the readings before rounding, and the record
OtherOutcomes ==
    { [readings |-> ReadingsOf(c), record |-> RecordOf(c)] : c \in OtherCalls }

OnlyTemperatureMissing(r) ==
    \A f \in Fields : (r[f] = NaN) <=> (f = "water_temp")

\* C9 as stated: two records with equal pH, Dissolved_Oxygen, Nitrate and
\* Turbidity and different, present Water_Temperature have the same index;
\* a missing Water_Temperature alone makes the index missing.
C9_SameStoredReadingsSameIndex ==
    entry # <<>> =>
        LET e == entry[1]
        IN  /\ e.Water_Quality_Index # NaN =>
                \A o \in OtherOutcomes :
                    LET e2 == o.record
                    IN  (/\ e2.pH = e.pH
                         /\ e2.Dissolved_Oxygen = e.Dissolved_Oxygen
                         /\ e2.Nitrate = e.Nitrate
                         /\ e2.Turbidity = e.Turbidity
                         /\ e2.Water_Temperature # e.Water_Temperature)
                        => e2.Water_Quality_Index = e.Water_Quality_Index
            /\ OnlyTemperatureMissing(ReadingsOf(call[1]))
                => e.Water_Quality_Index = NaN

\* C9, amended: two records computed from equal pH, Dissolved_Oxygen, Nitrate
\* and Turbidity readings as they are before round(x, 2), with different,
\* present Water_Temperature, have the same index; a missing
\* Water_Temperature alone makes the index missing.
C9_SameReadingsSameIndex ==
    entry # <<>> =>
        LET e == entry[1]
            r == ReadingsOf(call[1])
        IN  /\ e.Water_Quality_Index # NaN =>
                \A o \in OtherOutcomes :
                    LET r2 == o.readings
                    IN  (/\ r2.pH = r.pH
                         /\ r2.DO = r.DO
                         /\ r2.nitrate = r.nitrate
                         /\ r2.turbidity = r.turbidity
                         /\ r2.water_temp # r.water_temp)
                        => o.record.Water_Quality_Index = e.Water_Quality_Index
            /\ OnlyTemperatureMissing(r) => e.Water_Quality_Index = NaN

\* C9's case: another call gives the same four readings and another
\* temperature, and the index of this record is present
C9_Witness ==
    /\ entry # <<>>
    /\ entry[1].Water_Quality_Index # NaN
    /\ \E o \in OtherOutcomes :
          LET r == ReadingsOf(call[1])
              r2 == o.readings
          IN  /\ r2.pH = r.pH
              /\ r2.DO = r.DO
              /\ r2.nitrate = r.nitrate
              /\ r2.turbidity = r.turbidity
              /\ r2.water_temp # r.water_temp

----------------------------------------------------------------------------
(* app.py: the Streamlit script.  The model, the scaler and the encoder are *)
(* opaque: what a call of theirs does is a nondeterministic choice.         *)

Artifacts == <<"best_model.pkl", "scaler.pkl", "encoder.pkl">>

\* what joblib.load does with a file: returns, raises FileNotFoundError, or
\* raises another exception
LoadResults == {"ok", "FileNotFoundError", "Exception"}

\* whether the loaded model has predict_proba, only predict, or neither
ModelKinds == {"predict_proba", "predict", "neither"}

\* values of the probability, in hundredths of a percent, around each
\* breakpoint
ProbValues ==
    {0, 1999, 2000, 2001, 3999, 4000, 4001, 5999, 6000, 6001, 7999, 8000,
     8001, 10000}

\* lines 21-24: the loads run in order, the first failure ends the try block
RECURSIVE FirstFailure(_, _)
FirstFailure(f, k) ==
    IF k > Len(Artifacts) THEN "ok"
    ELSE IF f[Artifacts[k]] # "ok" THEN f[Artifacts[k]]
    ELSE FirstFailure(f, k + 1)

\* lines 129-137: the columns of input_data
InputColumns ==
    <<"Industry_Type", "pH", "Nitrate", "Water_Temperature", "Turbidity",
      "Dissolved_Oxygen", "Conductivity">>

\* lines 139-172: whether an exception reaches `except Exception`.  b says
\* what each collaborator does when called: the encoder on the 2-D frame,
\* the encoder on the column (the fallback after ValueError), the scaler,
\* the model's prediction method
Raises(kind, b) ==
    \/ b.encoder = "Exception"
    \/ b.encoder = "ValueError" /\ b.fallback = "raise"
    \/ LET encoded == b.encoder = "ok"
                      \/ (b.encoder = "ValueError" /\ b.fallback = "ok")
       IN  /\ encoded
           /\ \/ b.scaler = "raise"
              \/ b.scaler = "ok" /\ kind # "neither" /\ b.model = "raise"

RaisesOrIgnores(kind, b) ==
    \/ b.encoder = "Exception"
    \/ LET encoded == b.encoder \in {"ok", "ValueError"}
       IN  /\ encoded
           /\ \/ b.scaler = "raise"
              \/ b.scaler = "ok" /\ kind # "neither" /\ b.model = "raise"

PredictProbability_FallbackIgnored(kind, b) ==
    IF RaisesOrIgnores(kind, b) THEN None
    ELSE IF kind = "neither" THEN None
    ELSE b.output

\* lines 139-172: the value of `probability` at line 175
PredictProbability(kind, b) ==
    IF Raises(kind, b) THEN None
    ELSE IF kind = "neither" THEN None
    ELSE b.output

\* lines 139-172: the errors rendered
PredictErrors(kind, b) ==
    IF Raises(kind, b) THEN <<"error: prediction", "error: feature order">>
    ELSE IF kind = "neither" THEN <<"error: no probability support">>
    ELSE <<>>

RiskCategory_ExclusiveBounds(p) ==
    IF p < 2000 THEN "Very Low Risk"
    ELSE IF p < 4000 THEN "Low Risk"
    ELSE IF p < 6000 THEN "Moderate Risk"
    ELSE IF p < 8000 THEN "High Risk"
    ELSE "Very High Risk"

\* lines 180-204
RiskCategory(p) ==
    IF p <= 2000 THEN "Very Low Risk"
    ELSE IF p <= 4000 THEN "Low Risk"
    ELSE IF p <= 6000 THEN "Moderate Risk"
    ELSE IF p <= 8000 THEN "High Risk"
    ELSE "Very High Risk"

\* line 225: 'Low' in category or 'Very Low' in category
ContainsLow(c) == c \in {"Very Low Risk", "Low Risk"}

\* lines 175-228: what is rendered for a probability
ResultElements(p) ==
    IF p = None THEN <<>>
    ELSE <<"analysis header", "probability label", "category box",
           "category line", "message",
           IF ContainsLow(RiskCategory(p)) THEN "success" ELSE "action error">>

InitApp ==
    /\ GenIdle /\ RecIdle /\ WqiIdle
    /\ apc = "start"
    /\ files \in [{Artifacts[k] : k \in 1..Len(Artifacts)} -> LoadResults]
    /\ best_model \in ModelKinds
    /\ model_loaded = FALSE
    /\ click = <<>>
    /\ input_data = <<>>
    /\ probability = None
    /\ category = "none"
    /\ rendered = <<>>

\* lines 20-35
LoadModels ==
    /\ apc = "start"
    /\ LET failure == FirstFailure(files, 1)
       IN  IF failure = "ok"
           THEN /\ model_loaded' = TRUE
                /\ rendered' = <<>>
                /\ apc' = "page"
           ELSE /\ model_loaded' = FALSE
                /\ rendered' = IF failure = "FileNotFoundError"
                               THEN <<"error: model files not found">>
                               ELSE <<"error: model loading">>
                /\ apc' = "stopped"
    /\ UNCHANGED <<files, best_model, click, input_data, probability, category,
                   genVars, recVars, wqiVars>>

\* lines 42-124
RenderForm ==
    /\ apc = "page"
    /\ rendered' = rendered \o <<"title", "expander", "input header", "form",
                                 "prediction header">>
    /\ apc' = "button"
    /\ UNCHANGED <<files, best_model, model_loaded, click, input_data, probability,
                   category, genVars, recVars, wqiVars>>

\* lines 126, 230-232: the button was not clicked
NoPredict ==
    /\ apc = "button"
    /\ rendered' = rendered \o <<"button", "caption">>
    /\ apc' = "done"
    /\ UNCHANGED <<files, best_model, model_loaded, click, input_data, probability,
                   category, genVars, recVars, wqiVars>>

\* lines 126-232: the button was clicked
Predict ==
    /\ apc = "button"
    /\ \E enc \in {"ok", "ValueError", "Exception"}, fb \in {"ok", "raise"},
          sc \in {"ok", "raise"}, md \in {"ok", "raise"}, out \in ProbValues :
          LET b == [encoder |-> enc, fallback |-> fb, scaler |-> sc, model |-> md,
                    output |-> out]
              p == PredictProbability(best_model, b)
          IN  /\ click' = <<b>>
              /\ input_data' = InputColumns
              /\ probability' = p
              /\ category' = IF p = None THEN category ELSE RiskCategory(p)
              /\ rendered' = rendered \o <<"button">> \o PredictErrors(best_model, b)
                                      \o ResultElements(p) \o <<"caption">>
    /\ apc' = "done"
    /\ UNCHANGED <<files, best_model, model_loaded, genVars, recVars, wqiVars>>

\* a widget is used: Streamlit runs the script again from the top
RerunScript ==
    /\ apc = "done"
    /\ apc' = "start"
    /\ model_loaded' = FALSE
    /\ click' = <<>>
    /\ input_data' = <<>>
    /\ probability' = None
    /\ category' = "none"
    /\ rendered' = <<>>
    /\ UNCHANGED <<files, best_model, genVars, recVars, wqiVars>>

NextApp == LoadModels \/ RenderForm \/ NoPredict \/ Predict \/ RerunScript

SpecApp == InitApp /\ [][NextApp]_vars

----------------------------------------------------------------------------
(* Claims about the prediction form *)

Rendered(x) == \E k \in 1..Len(rendered) : rendered[k] = x

Rank(c) ==
    CASE c = "Very Low Risk"  -> 1
      [] c = "Low Risk"       -> 2
      [] c = "Moderate Risk"  -> 3
      [] c = "High Risk"      -> 4
      [] c = "Very High Risk" -> 5

\* C6: the displayed category is Very Low for p <= 20, Low for 20 < p <= 40,
\* Moderate for 40 < p <= 60, High for 60 < p <= 80 and Very High for p > 80;
\* it is a function of the probability alone and never lower for a higher
\* probability.
C6_RiskBuckets ==
    (click # <<>> /\ probability # None) =>
        /\ Rendered("category box")
        /\ probability <= 2000 => category = "Very Low Risk"
        /\ (2000 < probability /\ probability <= 4000) => category = "Low Risk"
        /\ (4000 < probability /\ probability <= 6000) => category = "Moderate Risk"
        /\ (6000 < probability /\ probability <= 8000) => category = "High Risk"
        /\ 8000 < probability => category = "Very High Risk"
        /\ \A q \in ProbValues :
              /\ q <= probability => Rank(RiskCategory(q)) <= Rank(category)
              /\ q >= probability => Rank(RiskCategory(q)) >= Rank(category)

\* C6's case: a probability of exactly 20 % is displayed
C6_Witness ==
    /\ click # <<>>
    /\ probability = 2000
    /\ category = "Very Low Risk"
    /\ Rendered("category box")

\* the columns create_record emits, without Timestamp, Factory_ID and
\* Pollution_Flag
FeatureSchema ==
    SelectSeq(RecordColumns,
              LAMBDA c : c \notin {"Timestamp", "Factory_ID", "Pollution_Flag"})

\* C8: the feature row of the form has the columns create_record emits, minus
\* Timestamp, Factory_ID and Pollution_Flag, in the same order.
C8_FeatureRowMatchesSchema ==
    click # <<>> => input_data = FeatureSchema

LoadErrors == {"error: model files not found", "error: model loading"}

ResultTags ==
    {"analysis header", "probability label", "category box", "category line",
     "message", "success", "action error"}

\* the encoding step (lines 145-149), the scaling or the prediction raised
StepRaised(kind, b) ==
    \/ b.encoder = "Exception"
    \/ b.encoder = "ValueError" /\ b.fallback = "raise"
    \/ /\ b.encoder = "ok" \/ (b.encoder = "ValueError" /\ b.fallback = "ok")
       /\ \/ b.scaler = "raise"
          \/ b.scaler = "ok" /\ kind # "neither" /\ b.model = "raise"

\* C10: if loading an artifact fails, one error is rendered and the script
\* stops with no form and no button; on a click, if the encoding step, the
\* scaling or the prediction raises, or the model has neither predict_proba
\* nor predict, probability is None, an error is rendered and no part of the
\* result is.
C10_NoResultAfterFailure ==
    /\ (apc # "start" /\ \E k \in 1..Len(Artifacts) : files[Artifacts[k]] # "ok") =>
          /\ apc = "stopped"
          /\ ~model_loaded
          /\ Len(rendered) = 1
          /\ rendered[1] \in LoadErrors
          /\ click = <<>>
    /\ (click # <<>> /\ (StepRaised(best_model, click[1]) \/ best_model = "neither")) =>
          /\ probability = None
          /\ category = "none"
          /\ \/ Rendered("error: prediction")
             \/ Rendered("error: no probability support")
          /\ \A k \in 1..Len(rendered) : rendered[k] \notin ResultTags

\* C10's case: the encoder raised ValueError on the frame and again on the
\* column, and the click ended with the error and no result
C10_Witness ==
    /\ click # <<>>
    /\ click[1].encoder = "ValueError"
    /\ click[1].fallback = "raise"
    /\ probability = None
    /\ Rendered("error: prediction")
    /\ Rendered("caption")

====
